---- MODULE Spec2Model ----
(***************************************************************************)
(* OneMinCache (src/src/index.js): an in-memory key/value store whose      *)
(* entries carry an optional expiry timestamp, with lazy expiry on read    *)
(* and an optional setInterval sweep.                                      *)
(*                                                                         *)
(* JavaScript values are records [t, n, s]: t the type tag, n the numeric  *)
(* payload, s the string payload / object identity.  The wall clock        *)
(* (new Date().getTime()) is the variable now; it only moves forward.      *)
(* Keys are ordinary property names (not names inherited from              *)
(* Object.prototype).                                                      *)
(***************************************************************************)
EXTENDS Integers, Sequences, FiniteSets, TLC

VARIABLES phase, storage, options, thisOptions, autoTimer, now, last

vars == <<phase, storage, options, thisOptions, autoTimer, now, last>>

---------------------------------------------------------------------------
(* Bounds of the exploration *)

\* first clock reading
StartTime == 1
\* the clock is explored up to StartTime + MaxAdvance
MaxAdvance == 2

\* the passes of the size walk's loop that are followed
MaxWalkSteps == 12

---------------------------------------------------------------------------
(* Program constants *)

DefaultClearExpiredMs == 10000
DefaultMaxSizeKb == 5000
DefaultLiveTimeMs == 60000
BytesPerKb == 1024

---------------------------------------------------------------------------
(* JavaScript values *)

Undef == [t |-> "undefined", n |-> 0, s |-> ""]
Null == [t |-> "null", n |-> 0, s |-> ""]
Num(i) == [t |-> "number", n |-> i, s |-> ""]
Str(x) == [t |-> "string", n |-> 0, s |-> x]
Bool(b) == [t |-> "boolean", n |-> IF b THEN 1 ELSE 0, s |-> ""]
Obj(id) == [t |-> "object", n |-> 0, s |-> id]

\* typeof v
Typeof(v) == IF v.t = "null" THEN "object" ELSE v.t

\* ToBoolean(v): the test made by `if (v)`, `!v`, `v && ...`
Truthy(v) ==
  CASE v.t = "undefined" -> FALSE
    [] v.t = "null" -> FALSE
    [] v.t = "number" -> v.n # 0
    [] v.t = "string" -> v.s # ""
    [] v.t = "boolean" -> v.n = 1
    [] OTHER -> TRUE

\* a > b for a number a and any value b (ToNumber(undefined) is NaN, ToNumber(null) is 0)
NumGreater(a, b) ==
  CASE b.t = "number" -> a > b.n
    [] b.t = "null" -> a > 0
    [] OTHER -> FALSE

---------------------------------------------------------------------------
(* Input domains *)

Keys == {"a", "b"}
OneKey == {"a"}

\* data passed to add: the falsy-but-defined values, null and a truthy object
AllValues == {Num(0), Bool(FALSE), Str(""), Null, Obj("o")}
\* the two kinds of data the two-key exploration stores: falsy-but-defined and truthy
Values == {Num(0), Obj("o")}

\* the arguments of add: a key or undefined, data or undefined
KeyArgs(K) == {Str(k) : k \in K} \cup {Undef}
ValueArgs(V) == V \cup {Undef}

\* liveTimeMs passed to add: omitted, a non-number, a negative number, zero, a positive number
TTLArgs == {Undef, Str("1m"), Num(0 - 1), Num(0), Num(1)}

\* the options argument of the constructor
OptArg(kind, ce, lt, dbg, msz) ==
  [kind |-> kind, clearExpiredMs |-> ce, liveTimeMs |-> lt, debug |-> dbg, maxSizeKb |-> msz]

OptionArgs ==
  { OptArg("omitted", Undef, Undef, Undef, Undef),
    OptArg("object", Num(DefaultClearExpiredMs), Undef, Bool(FALSE), Num(DefaultMaxSizeKb)),
    OptArg("object", Undef, Num(1), Str("yes"), Str("big")),
    OptArg("object", Num(0), Num(1), Undef, Undef),
    OptArg("object", Str("10s"), Num(1), Undef, Undef) }

---------------------------------------------------------------------------
(* The storage object: own properties in insertion order *)

Entry(k, d, e) == [key |-> k, data |-> d, expiresAt |-> e]

\* Object.keys(storage)
ObjectKeys(st) == [i \in 1..Len(st) |-> st[i].key]

\* key in storage
In(st, k) == \E i \in 1..Len(st) : st[i].key = k

IndexOf(st, k) == CHOOSE i \in 1..Len(st) : st[i].key = k

\* storage[key], for a key known to be present
Get(st, k) == st[IndexOf(st, k)]

\* storage[key]?.expiresAt
ExpiresAtOf(st, k) == IF In(st, k) THEN Get(st, k).expiresAt ELSE Undef

\* delete storage[key]
Delete(st, k) == SelectSeq(st, LAMBDA e : e.key # k)

\* storage[key] = {...}: a new property goes last, an existing one keeps its place
Put(st, k, d, e) ==
  IF In(st, k)
  THEN [i \in 1..Len(st) |-> IF st[i].key = k THEN Entry(k, d, e) ELSE st[i]]
  ELSE Append(st, Entry(k, d, e))

---------------------------------------------------------------------------
(* helpers.js *)

\* checkExpiration(expiresAt) at clock reading t
checkExpiration(expiresAt, t) ==
  IF expiresAt # Null THEN NumGreater(t, expiresAt) ELSE FALSE


\* members of the caller's objects, in for-in order: "o" is { x: 1 }
ObjMembers(id) ==
  CASE id = "o" -> <<Num(1)>>
    [] id = "cyc" -> <<Num(1), Obj("cyc")>>
    [] OTHER -> <<>>

\* a reference to the storage object itself / to the entry object at position i
StorageRef == [t |-> "object", n |-> 0, s |-> "this.storage"]
EntryRef(i) == [t |-> "object", n |-> i, s |-> "entry"]

\* the own enumerable members pushed by `for (const key in value)`
MembersOf(v, st) ==
  CASE v = Null -> <<>>
    [] v = StorageRef -> [i \in 1..Len(st) |-> EntryRef(i)]
    [] v.s = "entry" -> <<st[v.n].data, st[v.n].expiresAt>>
    [] OTHER -> ObjMembers(v.s)

\* the while loop of calcApproxObjSize: pop, add the bytes, expand unseen objects
RECURSIVE SizeWalk(_, _, _, _)
SizeWalk(stack, objectList, bytes, st) ==
  IF stack = <<>> THEN bytes
  ELSE LET value == stack[Len(stack)]
           rest == SubSeq(stack, 1, Len(stack) - 1)
       IN CASE Typeof(value) = "boolean" -> SizeWalk(rest, objectList, bytes + 4, st)
            [] Typeof(value) = "string" ->
                 SizeWalk(rest, objectList, bytes + Len(value.s) * 2, st)
            [] Typeof(value) = "number" -> SizeWalk(rest, objectList, bytes + 8, st)
            [] Typeof(value) = "object" /\ value \notin objectList ->
                 SizeWalk(rest \o MembersOf(value, st), objectList \cup {value}, bytes, st)
            [] OTHER -> SizeWalk(rest, objectList, bytes, st)

\* the locals of calcApproxObjSize while its loop runs, with the objects expanded so far
WalkStart == [stack |-> <<StorageRef>>, objectList |-> {}, bytes |-> 0, expanded |-> <<>>]

\* a variant of WalkStep that expands an object without looking it up in objectList
WalkStep_NoSeenCheck(w, st) ==
  LET value == w.stack[Len(w.stack)]
      rest == SubSeq(w.stack, 1, Len(w.stack) - 1)
  IN CASE Typeof(value) = "boolean" -> [w EXCEPT !.stack = rest, !.bytes = @ + 4]
       [] Typeof(value) = "string" ->
            [w EXCEPT !.stack = rest, !.bytes = @ + Len(value.s) * 2]
       [] Typeof(value) = "number" -> [w EXCEPT !.stack = rest, !.bytes = @ + 8]
       [] Typeof(value) = "object" ->
            [w EXCEPT !.stack = rest \o MembersOf(value, st),
                      !.objectList = @ \cup {value},
                      !.expanded = Append(@, value)]
       [] OTHER -> [w EXCEPT !.stack = rest]

\* one pass of the while loop of calcApproxObjSize
WalkStep(w, st) ==
  LET value == w.stack[Len(w.stack)]
      rest == SubSeq(w.stack, 1, Len(w.stack) - 1)
  IN CASE Typeof(value) = "boolean" -> [w EXCEPT !.stack = rest, !.bytes = @ + 4]
       [] Typeof(value) = "string" ->
            [w EXCEPT !.stack = rest, !.bytes = @ + Len(value.s) * 2]
       [] Typeof(value) = "number" -> [w EXCEPT !.stack = rest, !.bytes = @ + 8]
       [] Typeof(value) = "object" /\ value \notin w.objectList ->
            [w EXCEPT !.stack = rest \o MembersOf(value, st),
                      !.objectList = @ \cup {value},
                      !.expanded = Append(@, value)]
       [] OTHER -> [w EXCEPT !.stack = rest]

\* the loop run for at most fuel passes: the locals when it stopped or ran out
RECURSIVE WalkRun(_, _, _)
WalkRun(w, st, fuel) ==
  IF w.stack = <<>> \/ fuel = 0 THEN w ELSE WalkRun(WalkStep(w, st), st, fuel - 1)

\* Math.round(bytes / 1024) for bytes >= 0
RoundKb(bytes) == (2 * bytes + BytesPerKb) \div (2 * BytesPerKb)

\* calcApproxObjSize(this.storage)
calcApproxObjSize(st) == RoundKb(SizeWalk(<<StorageRef>>, {}, 0, st))

---------------------------------------------------------------------------
(* What each method does to the storage and what it returns *)

\* a variant of addExpiresAt without the default parameter value
addExpiresAt_NoDefault(liveTimeMs, t) ==
  IF Truthy(liveTimeMs) /\ Typeof(liveTimeMs) = "number"
  THEN Num(t + liveTimeMs.n) ELSE Null

\* add: the expiresAt stored for a liveTimeMs argument at clock reading t
addExpiresAt(liveTimeMs, t) ==
  LET lt == IF liveTimeMs = Undef THEN Num(DefaultLiveTimeMs) ELSE liveTimeMs
  IN IF Truthy(lt) /\ Typeof(lt) = "number" THEN Num(t + lt.n) ELSE Null

\* a variant of addThrows that rejects every falsy dataToStore (`!dataToStore`)
addThrows_Falsy(key, dataToStore) ==
  IF key = Undef THEN "Missing required field: key"
  ELSE IF ~Truthy(dataToStore) THEN "Missing required field: dataToStore"
  ELSE ""

\* add: the error thrown, "" when none
addThrows(key, dataToStore) ==
  IF key = Undef THEN "Missing required field: key"
  ELSE IF dataToStore = Undef THEN "Missing required field: dataToStore"
  ELSE ""

\* a variant of addStore that makes room for a new key by dropping the oldest entry
addStore_EvictsOldest(st, k, dataToStore, liveTimeMs, t) ==
  Put(IF In(st, k) \/ st = <<>> THEN st ELSE Tail(st),
      k, dataToStore, addExpiresAt(liveTimeMs, t))

\* add: the storage after a call that does not throw
addStore(st, k, dataToStore, liveTimeMs, t) ==
  Put(st, k, dataToStore, addExpiresAt(liveTimeMs, t))

\* a variant of clearStore that keeps an entry without expiration
clearStore_KeepsForever(st, k) ==
  IF In(st, k) /\ Get(st, k).expiresAt = Null THEN st ELSE Delete(st, k)

\* clear: delete this.storage[key]
clearStore(st, k) == Delete(st, k)

\* get: the returned value
getResult(st, k, t) ==
  IF ~In(st, k) THEN Null
  ELSE LET cachedData == IF Truthy(Get(st, k).data) THEN Get(st, k).data ELSE Null
       IN IF checkExpiration(ExpiresAtOf(st, k), t) THEN Null ELSE cachedData

\* a variant of getStore that leaves the expired entry in place
getStore_NoDelete(st, k, t) == st

\* get: the storage afterwards
getStore(st, k, t) ==
  IF In(st, k) /\ checkExpiration(ExpiresAtOf(st, k), t) THEN clearStore(st, k) ELSE st

\* has: the storage afterwards
hasStore(st, k, t) ==
  IF checkExpiration(ExpiresAtOf(st, k), t) THEN clearStore(st, k) ELSE st

\* has: the returned boolean
hasResult(st, k, t) ==
  LET after == hasStore(st, k, t)
  IN In(after, k) /\ Get(after, k).data # Undef

\* a variant of clearExpiredStore that also deletes the entry expiring at t itself
clearExpiredStore_AtOrAfter(st, t) ==
  SelectSeq(st, LAMBDA e : ~(Truthy(e.expiresAt) /\
                             (NumGreater(t, e.expiresAt) \/ e.expiresAt = Num(t))))

\* clearExpired: the storage afterwards, every entry compared with the one timestamp t
clearExpiredStore(st, t) ==
  SelectSeq(st, LAMBDA e : ~(Truthy(e.expiresAt) /\ NumGreater(t, e.expiresAt)))

\* getAll: the storage afterwards
getAllStore(st, opts, t) ==
  IF Truthy(opts.clearExpiredMs) THEN clearExpiredStore(st, t) ELSE st

---------------------------------------------------------------------------
(* The constructor *)

\* the default value of the options parameter
DefaultOptions ==
  [clearExpiredMs |-> Num(DefaultClearExpiredMs), debug |-> Bool(FALSE),
   maxSizeKb |-> Num(DefaultMaxSizeKb), liveTimeMs |-> Undef]

\* the options object the constructor works on
optionsParam(arg) ==
  IF arg.kind = "omitted" THEN DefaultOptions
  ELSE [clearExpiredMs |-> arg.clearExpiredMs, debug |-> arg.debug,
        maxSizeKb |-> arg.maxSizeKb, liveTimeMs |-> arg.liveTimeMs]

\* options.clearExpiredMs after `if (!options.clearExpiredMs) options.clearExpiredMs = null`
normClearExpiredMs(v) == IF ~Truthy(v) THEN Null ELSE v

\* the error thrown by the constructor, "" when none
constructorThrows(arg) ==
  LET ce == normClearExpiredMs(optionsParam(arg).clearExpiredMs)
  IN IF ce # Null /\ Typeof(ce) # "number"
     THEN "Incorrect value of options.clearExpiredMs"
     ELSE ""

\* the options object after the constructor's in-place normalisation
normOptions(arg) ==
  LET o == optionsParam(arg)
  IN [clearExpiredMs |-> normClearExpiredMs(o.clearExpiredMs),
      debug |-> IF Typeof(o.debug) # "boolean" THEN Bool(FALSE) ELSE o.debug,
      maxSizeKb |-> IF Typeof(o.maxSizeKb) # "number" THEN Null ELSE o.maxSizeKb,
      liveTimeMs |-> o.liveTimeMs]

\* this.options
makeThisOptions(o) ==
  [debug |-> IF Truthy(o.debug) THEN o.debug ELSE Bool(FALSE),
   clearExpiredMs |-> o.clearExpiredMs]

---------------------------------------------------------------------------
(* The state machine *)

\* how an entry stands at clock reading t for get and has, which ask checkExpiration:
\* without expiration, expired (expiresAt is not null and t > expiresAt, 0 included),
\* or fresh. clearExpired has its own test (clearExpiredStore), false for expiresAt = 0.
StateOf(e, t) ==
  IF e.expiresAt = Null THEN "forever"
  ELSE IF checkExpiration(e.expiresAt, t) THEN "expired"
  ELSE "fresh"

\* the entry under k is present and checkExpiration finds its expiresAt passed
ExpiredPresent(st, k, t) == In(st, k) /\ StateOf(Get(st, k), t) = "expired"

\* the keys a call deleted, each with how its entry stood at the call
Removed(before, after, t) ==
  LET gone == SelectSeq(before, LAMBDA e : ~In(after, e.key))
  IN [i \in 1..Len(gone) |-> [key |-> gone[i].key, was |-> StateOf(gone[i], t)]]

\* the record of the latest call: its name, its key, add's liveTimeMs argument and the
\* timestamp add read, the value returned, the keys returned, the keys deleted, the error
NoCall ==
  [op |-> "none", key |-> Undef, ttl |-> Undef, at |-> 0, ret |-> Undef, keys |-> <<>>,
   removed |-> <<>>, threw |-> ""]

Call(op, key, ret, removed) ==
  [NoCall EXCEPT !.op = op, !.key = key, !.ret = ret, !.removed = removed]

NoOptions == [clearExpiredMs |-> Undef, debug |-> Undef, maxSizeKb |-> Undef,
              liveTimeMs |-> Undef]

Init ==
  /\ phase = "new"
  /\ storage = <<>>
  /\ options = NoOptions
  /\ thisOptions = [debug |-> Undef, clearExpiredMs |-> Undef]
  /\ autoTimer = FALSE
  /\ now = StartTime
  /\ last = NoCall

\* new OneMinCache(id, options)
Construct(arg) ==
  /\ phase = "new"
  /\ IF constructorThrows(arg) # ""
     THEN /\ phase' = "threw"
          /\ last' = [NoCall EXCEPT !.op = "new", !.threw = constructorThrows(arg)]
          /\ UNCHANGED <<storage, options, thisOptions, autoTimer>>
     ELSE /\ phase' = "ready"
          /\ storage' = <<>>
          /\ options' = normOptions(arg)
          /\ thisOptions' = makeThisOptions(normOptions(arg))
          /\ autoTimer' = Truthy(normOptions(arg).clearExpiredMs)
          /\ last' = [NoCall EXCEPT !.op = "new"]
  /\ UNCHANGED now

\* cache.add(key, dataToStore, liveTimeMs)
add(key, dataToStore, liveTimeMs) ==
  /\ phase = "ready"
  /\ IF addThrows(key, dataToStore) # ""
     THEN /\ UNCHANGED storage
          /\ last' = [NoCall EXCEPT !.op = "add", !.key = key,
                                    !.threw = addThrows(key, dataToStore)]
     ELSE /\ storage' = addStore(storage, key.s, dataToStore, liveTimeMs, now)
          /\ last' = [NoCall EXCEPT !.op = "add", !.key = key, !.ttl = liveTimeMs,
                                    !.at = IF addExpiresAt(liveTimeMs, now) # Null
                                           THEN now ELSE 0]
  /\ UNCHANGED <<phase, options, thisOptions, autoTimer, now>>

\* cache.get(key)
get(k) ==
  /\ phase = "ready"
  /\ storage' = getStore(storage, k, now)
  /\ last' = Call("get", Str(k), getResult(storage, k, now),
                  Removed(storage, getStore(storage, k, now), now))
  /\ UNCHANGED <<phase, options, thisOptions, autoTimer, now>>

\* cache.getAll()
getAll ==
  /\ phase = "ready"
  /\ storage' = getAllStore(storage, options, now)
  /\ last' = Call("getAll", Undef, StorageRef,
                  Removed(storage, getAllStore(storage, options, now), now))
  /\ UNCHANGED <<phase, options, thisOptions, autoTimer, now>>

\* cache.has(key)
has(k) ==
  /\ phase = "ready"
  /\ storage' = hasStore(storage, k, now)
  /\ last' = Call("has", Str(k), Bool(hasResult(storage, k, now)),
                  Removed(storage, hasStore(storage, k, now), now))
  /\ UNCHANGED <<phase, options, thisOptions, autoTimer, now>>

\* cache.clear(key)
clear(k) ==
  /\ phase = "ready"
  /\ storage' = clearStore(storage, k)
  /\ last' = Call("clear", Str(k), Undef, Removed(storage, clearStore(storage, k), now))
  /\ UNCHANGED <<phase, options, thisOptions, autoTimer, now>>

\* cache.clearExpired()
clearExpired ==
  /\ phase = "ready"
  /\ storage' = clearExpiredStore(storage, now)
  /\ last' = Call("clearExpired", Undef, Undef,
                  Removed(storage, clearExpiredStore(storage, now), now))
  /\ UNCHANGED <<phase, options, thisOptions, autoTimer, now>>

\* a variant of clearAll that drops only the expired entries
clearAll_SweepOnly ==
  /\ phase = "ready"
  /\ storage' = clearExpiredStore(storage, now)
  /\ last' = Call("clearAll", Undef, Undef,
                  Removed(storage, clearExpiredStore(storage, now), now))
  /\ UNCHANGED <<phase, options, thisOptions, autoTimer, now>>

\* cache.clearAll()
clearAll ==
  /\ phase = "ready"
  /\ storage' = <<>>
  /\ last' = Call("clearAll", Undef, Undef, Removed(storage, <<>>, now))
  /\ UNCHANGED <<phase, options, thisOptions, autoTimer, now>>

\* a variant of getKeys that sweeps expired entries before listing the keys
getKeys_Sweeps ==
  /\ phase = "ready"
  /\ storage' = clearExpiredStore(storage, now)
  /\ last' = [NoCall EXCEPT !.op = "getKeys", !.keys = ObjectKeys(storage')]
  /\ UNCHANGED <<phase, options, thisOptions, autoTimer, now>>

\* cache.getKeys()
getKeys ==
  /\ phase = "ready"
  /\ last' = [NoCall EXCEPT !.op = "getKeys", !.keys = ObjectKeys(storage)]
  /\ UNCHANGED <<phase, storage, options, thisOptions, autoTimer, now>>

\* cache.getSizeKb()
getSizeKb ==
  /\ phase = "ready"
  /\ last' = Call("getSizeKb", Undef, Num(calcApproxObjSize(storage)), <<>>)
  /\ UNCHANGED <<phase, storage, options, thisOptions, autoTimer, now>>

\* cache.getKeysQty()
getKeysQty ==
  /\ phase = "ready"
  /\ last' = Call("getKeysQty", Undef, Num(Len(ObjectKeys(storage))), <<>>)
  /\ UNCHANGED <<phase, storage, options, thisOptions, autoTimer, now>>

\* the setInterval callback: this._autoLoop runs this.clearExpired()
autoLoop ==
  /\ phase = "ready"
  /\ autoTimer
  /\ storage' = clearExpiredStore(storage, now)
  /\ last' = Call("_autoLoop", Undef, Undef,
                  Removed(storage, clearExpiredStore(storage, now), now))
  /\ UNCHANGED <<phase, options, thisOptions, autoTimer, now>>

\* the clock advances in steps of 1 ms
ClockSteps == {1}

\* time passes: new Date().getTime() reads a later value
Tick(d) ==
  /\ now + d <= StartTime + MaxAdvance
  /\ now' = now + d
  /\ UNCHANGED <<phase, storage, options, thisOptions, autoTimer, last>>

\* one step of the cache over keys K, data V and constructor arguments O
StepWith(K, V, O) ==
  \/ \E arg \in O : Construct(arg)
  \/ \E key \in KeyArgs(K), v \in ValueArgs(V), ttl \in TTLArgs : add(key, v, ttl)
  \/ \E k \in K : get(k)
  \/ getAll
  \/ \E k \in K : has(k)
  \/ \E k \in K : clear(k)
  \/ clearExpired
  \/ clearAll
  \/ getKeys
  \/ getSizeKb
  \/ getKeysQty
  \/ autoLoop
  \/ \E d \in ClockSteps : Tick(d)

\* one step of the cache over keys K and data V
Step(K, V) == StepWith(K, V, OptionArgs)

Next == Step(Keys, Values)

\* two keys, two kinds of data
Spec == Init /\ [][Next]_vars

\* the timer callback keeps being run while the interval is set
FairSpec == Spec /\ WF_vars(autoLoop)

NextValues == Step(OneKey, AllValues)

\* one key, every kind of data
ValueSpec == Init /\ [][NextValues]_vars

\* a long time passes at once: the clock moves by the default live time
LongTick ==
  /\ now <= StartTime + MaxAdvance
  /\ now' = now + DefaultLiveTimeMs
  /\ UNCHANGED <<phase, storage, options, thisOptions, autoTimer, last>>

OneValue == {Num(0)}

NextLong == Step(OneKey, OneValue) \/ LongTick

\* a string of 1024 characters: 2048 bytes for the size walk
S16 == "0123456789abcdef"
S64 == S16 \o S16 \o S16 \o S16
S256 == S64 \o S64 \o S64 \o S64
BigValues == {Str(S256 \o S256 \o S256 \o S256)}

\* new OneMinCache('c', {maxSizeKb: 1, clearExpiredMs: 10000})
SmallLimitArgs == {OptArg("object", Num(DefaultClearExpiredMs), Undef, Undef, Num(1))}

NextBig == StepWith(Keys, BigValues, SmallLimitArgs)

\* two keys, data of 2 Kb each, a cache constructed with maxSizeKb = 1
BigSpec == Init /\ [][NextBig]_vars

CycleValues == {Obj("cyc")}

NextCycle == Step(Keys, CycleValues)

\* two keys, each holding the one object that refers to itself
CycleSpec == Init /\ [][NextCycle]_vars

\* one key, one kind of data, and a clock that can pass the default live time
LongSpec == Init /\ [][NextLong]_vars

---------------------------------------------------------------------------
(* Properties *)

\* C1: add(k, v) with no TTL argument followed at the same clock reading by get(k)
\* returns v, for every defined v, falsy ones included.
C1_AddThenGetReturnsValue ==
  [][\A k \in Keys :
       (/\ last.op = "add" /\ last.key = Str(k) /\ last.threw = ""
        /\ last.ttl = Undef /\ last.at = now
        /\ get(k))
       => last'.ret = Get(storage, k).data]_vars

\* C2: a get(k) issued when the entry's expiry time has passed returns null and
\* leaves k out of the mapping (and so out of getKeys); a get of an absent key
\* returns null as well.
C2_GetAfterExpiryRemoves ==
  [][\A k \in Keys :
       /\ (ExpiredPresent(storage, k, now) /\ get(k))
            => /\ last'.ret = Null
               /\ ~In(storage', k)
               /\ \A i \in 1..Len(ObjectKeys(storage')) : ObjectKeys(storage')[i] # k
       /\ (~In(storage, k) /\ get(k)) => (last'.ret = Null /\ ~In(storage', k))]_vars

\* a get found its entry expired, returned null and deleted the key, two clock steps
\* after the start (time enough for a positive TTL to run out)
C2_Witness ==
  /\ last.op = "get" /\ last.key = Str("a") /\ last.ret = Null
  /\ last.removed = <<[key |-> "a", was |-> "expired"]>>
  /\ ~In(storage, "a")
  /\ now = StartTime + 2

\* C3: in every state and for every key, has(k) is true exactly when get(k) at the
\* same clock reading returns something other than null.
C3_HasGetAgree ==
  \A k \in Keys : hasResult(storage, k, now) <=> (getResult(storage, k, now) # Null)

\* C4: on a cache constructed with liveTimeMs = L, after add(k, v) without a TTL
\* has(k) is true at once, and once the clock has advanced by more than L has(k) is
\* false and k is out of the mapping.
C4_DefaultTTLIsOption ==
  [][\A k \in Keys :
       (/\ options.liveTimeMs.t = "number" /\ options.liveTimeMs.n > 0
        /\ last.op = "add" /\ last.key = Str(k) /\ last.threw = "" /\ last.ttl = Undef
        /\ has(k))
       => /\ (now = last.at) => last'.ret = Bool(TRUE)
          /\ (now > last.at + options.liveTimeMs.n)
               => (last'.ret = Bool(FALSE) /\ ~In(storage', k))]_vars

\* C5: add throws exactly when key or dataToStore is undefined; every other call
\* (falsy data 0, false, '' and null included) stores the entry under its key, and
\* a call that throws stores nothing.
C5_AddThrowsIffUndefined ==
  [][\A key \in KeyArgs(Keys), v \in ValueArgs(AllValues), ttl \in TTLArgs :
       add(key, v, ttl)
       => /\ (last'.threw # "") <=> (key = Undef \/ v = Undef)
          /\ (last'.threw = "") => (In(storage', key.s) /\ Get(storage', key.s).data = v)
          /\ (last'.threw # "") => storage' = storage]_vars

\* an add of the falsy value false succeeded and the entry is stored
C5_Witness ==
  /\ last.op = "add" /\ last.key = Str("a") /\ last.threw = ""
  /\ In(storage, "a") /\ Get(storage, "a").data = Bool(FALSE)

\* C6: clearExpired removes exactly the entries whose expiresAt is set and strictly
\* earlier than the clock reading of the sweep; every other entry stays as it was.
C6_ClearExpiredExact ==
  [][clearExpired
       => storage' = SelectSeq(storage,
                       LAMBDA e : ~(e.expiresAt # Null /\ e.expiresAt.n < now))]_vars

\* C7: after clearAll, getKeys() is the empty sequence and getKeysQty() is 0.
C7_ClearAllEmpties ==
  last.op = "clearAll" => (ObjectKeys(storage) = <<>> /\ Len(ObjectKeys(storage)) = 0)

\* clearAll removed an expired entry together with a fresh one
C7_Witness ==
  /\ last.op = "clearAll"
  /\ Len(last.removed) = 2
  /\ {last.removed[i].was : i \in 1..Len(last.removed)} = {"expired", "fresh"}
  /\ storage = <<>>

\* C8: the constructor never throws, whatever the options.
C8_ConstructionNeverFails ==
  last.op = "new" => last.threw = ""

\* C9: with the interval set, the timer keeps sweeping, so every expired entry is
\* eventually out of the mapping, and no call clears the timer.
C9_ExpiredEventuallySwept ==
  /\ \A k \in Keys :
       (autoTimer /\ ExpiredPresent(storage, k, now)) ~> ~ExpiredPresent(storage, k, now)
  /\ [][autoTimer => autoTimer']_vars

\* C10: getAll returns the live mapping; with periodic clearing enabled no entry
\* whose expiresAt is strictly in the past is left in it, with periodic clearing
\* disabled the mapping is unchanged.
C10_GetAllConditionalSweep ==
  [][getAll
       => /\ last'.ret = StorageRef
          /\ IF Truthy(options.clearExpiredMs)
             THEN \A k \in Keys : ~ExpiredPresent(storage', k, now)
             ELSE storage' = storage]_vars

\* the step is a call of the method op (every method records itself in last; only
\* the clock moves now)
Did(op) == now' = now /\ last'.op = op

\* the step is a call of add that returned normally
DidAdd == Did("add") /\ last'.threw = ""

\* C11: add stores now + ttl only for a positive ttl; for 0, a negative number or a
\* non-number the entry has no expiration (so it can never be reported expired).
C11_ExpiresAtPositiveOnly ==
  [][(DidAdd /\ last'.ttl # Undef)
     => Get(storage', last'.key.s).expiresAt =
          IF last'.ttl.t = "number" /\ last'.ttl.n > 0
          THEN Num(now + last'.ttl.n) ELSE Null]_vars

\* the cache was constructed without a default live time of its own: no options
\* argument, or an options object without liveTimeMs
NoLiveTimeOverride == phase = "ready" /\ options.liveTimeMs = Undef

\* C12 as stated: on a cache constructed without a default-TTL override, an entry
\* added with no liveTimeMs argument is never removed by clearExpired, however much
\* time has passed since the add.
C12_NoTTLNeverEvicted ==
  [][(NoLiveTimeOverride /\ last.op = "add" /\ last.threw = "" /\ last.ttl = Undef
      /\ Did("clearExpired"))
     => In(storage', last.key.s)]_vars

\* C12 amended: on a cache constructed without a default-TTL override, an entry added
\* with no liveTimeMs argument gets the default live time: a clearExpired keeps it
\* while at most DefaultLiveTimeMs have passed since the add and removes it once more
\* have passed.
C12_NoTTLEvictedAfterDefault ==
  [][(NoLiveTimeOverride /\ last.op = "add" /\ last.threw = "" /\ last.ttl = Undef
      /\ Did("clearExpired"))
     => (In(storage', last.key.s) <=> now <= last.at + DefaultLiveTimeMs)]_vars

\* on a cache constructed without a default-TTL override the latest call added "a"
\* with no liveTimeMs, and more than the default live time has passed since: the
\* entry is present and expired, ready for the sweep
C12_Witness ==
  /\ NoLiveTimeOverride
  /\ last.op = "add" /\ last.key = Str("a") /\ last.threw = "" /\ last.ttl = Undef
  /\ now > last.at + DefaultLiveTimeMs
  /\ ExpiredPresent(storage, "a", now)

\* C13: every cache that was constructed runs with the default sweep interval unless a
\* valid one was given: the options object that omits clearExpiredMs (or gives 0)
\* yields the interval DefaultClearExpiredMs, a started timer and a sweeping getAll,
\* as the omitted options argument does.
C13_DefaultIntervalApplied ==
  phase = "ready"
  => /\ thisOptions.clearExpiredMs = Num(DefaultClearExpiredMs)
     /\ autoTimer
     /\ getAllStore(storage, thisOptions, now) = clearExpiredStore(storage, now)

\* C14: an add onto a key that is already present replaces the entry: its data is
\* the second call's data, its expiresAt comes from the second call alone (now + t2,
\* or no expiration when t2 is not a positive number), and an entry that was expired
\* but present is fresh after the add.
C14_AddOverwrites ==
  [][(DidAdd /\ In(storage, last'.key.s))
     => LET k  == last'.key.s
            t2 == IF last'.ttl = Undef THEN Num(DefaultLiveTimeMs) ELSE last'.ttl
        IN /\ \E v \in ValueArgs(AllValues) :
                add(last'.key, v, last'.ttl) /\ Get(storage', k).data = v
           /\ Get(storage', k).expiresAt =
                IF t2.t = "number" /\ t2.n > 0 THEN Num(now + t2.n) ELSE Null
           /\ ExpiredPresent(storage, k, now) => ~ExpiredPresent(storage', k, now)]_vars

\* C15: getKeys, getKeysQty and getSizeKb leave the mapping as it is (no sweep);
\* getKeys returns exactly the keys present, those of expired entries included, and
\* getKeysQty returns the length of what getKeys returns.
C15_InspectorsDoNotSweep ==
  [][/\ (Did("getKeys") \/ Did("getKeysQty") \/ Did("getSizeKb")) => storage' = storage
     /\ Did("getKeys")
        => /\ \A k \in Keys :
                In(storage, k) <=> \E i \in 1..Len(last'.keys) : last'.keys[i] = k
           /\ Len(last'.keys) = Len(storage)
     /\ Did("getKeysQty") => last'.ret = Num(Len(ObjectKeys(storage)))]_vars

\* getKeys has just listed "a" while the entry under "a" is expired and still present
C15_Witness ==
  /\ last.op = "getKeys"
  /\ ExpiredPresent(storage, "a", now)
  /\ \E i \in 1..Len(last.keys) : last.keys[i] = "a"

\* C16: clear(k) leaves k out of the mapping whatever the state of its entry (fresh,
\* expired, without expiration, or absent already), raises nothing, and leaves every
\* other key with the entry it had.
C16_ClearRemovesOnlyKey ==
  [][Did("clear")
     => LET k == last'.key.s
        IN /\ ~In(storage', k)
           /\ last'.threw = ""
           /\ \A j \in Keys \ {k} :
                /\ In(storage', j) <=> In(storage, j)
                /\ In(storage, j) => Get(storage', j) = Get(storage, j)]_vars

\* clear("a") has just removed an entry without expiration while "b" stays stored
C16_Witness ==
  /\ last.op = "clear" /\ last.key = Str("a")
  /\ last.removed = <<[key |-> "a", was |-> "forever"]>>
  /\ ~In(storage, "a") /\ In(storage, "b")

\* how the claim classes the key k: absent, expired (present with an expiresAt the
\* expiry test of get/has finds passed) or fresh (present otherwise)
KeyState(st, k, t) ==
  IF ~In(st, k) THEN "absent"
  ELSE IF checkExpiration(ExpiresAtOf(st, k), t) THEN "expired"
  ELSE "fresh"

\* C17: a key changes state only as specified: fresh to expired only by time passing,
\* to absent only by clear, clearAll, a sweep or the lazy deletion of get/has, to fresh
\* only by add; add never creates an entry that is already expired; an expired entry
\* is reported by get and has as not there.
C17_EntryTransitions ==
  [][\A k \in Keys :
       LET old == KeyState(storage, k, now)
           new == KeyState(storage', k, now')
       IN /\ (old = "fresh" /\ new = "expired") => now' # now
          /\ (old # "absent" /\ new = "absent")
             => \/ Did("clear") \/ Did("clearAll") \/ Did("clearExpired")
                \/ Did("getAll") \/ Did("_autoLoop")
                \/ (old = "expired" /\ (Did("get") \/ Did("has")))
          /\ (old # "fresh" /\ new = "fresh") => (DidAdd /\ last'.key = Str(k))
          /\ (DidAdd /\ last'.key = Str(k)) => new = "fresh"
          /\ old = "expired"
             => (getResult(storage, k, now) = Null /\ ~hasResult(storage, k, now))]_vars

\* C18: getSizeKb returns 0 on an empty cache; when stored values refer to themselves
\* the size walk still ends (within MaxWalkSteps passes), having expanded no object
\* twice, and getSizeKb returns a number that is not negative.
C18_SizeWalkTerminates ==
  LET w == WalkRun(WalkStart, storage, MaxWalkSteps)
  IN /\ w.stack = <<>>
     /\ \A i, j \in 1..Len(w.expanded) : w.expanded[i] = w.expanded[j] => i = j
     /\ w.bytes >= 0
     /\ calcApproxObjSize(storage) = RoundKb(w.bytes)
     /\ storage = <<>> => calcApproxObjSize(storage) = 0
     /\ last.op = "getSizeKb"
        => (last.ret = Num(calcApproxObjSize(storage)) /\ last.ret.n >= 0)

\* getSizeKb has just returned for a cache whose two entries hold the self-referring
\* object, which the walk expanded once
C18_Witness ==
  /\ last.op = "getSizeKb" /\ last.ret.t = "number"
  /\ In(storage, "a") /\ Get(storage, "a").data = Obj("cyc")
  /\ In(storage, "b") /\ Get(storage, "b").data = Obj("cyc")
  /\ Len(SelectSeq(WalkRun(WalkStart, storage, MaxWalkSteps).expanded,
                   LAMBDA v : v = Obj("cyc"))) = 1

\* C19: a timer tick changes no answer of get or has: for every key, what get and
\* has return right after a tick of _autoLoop is what they would have returned right
\* before it, since the tick deletes only entries they already report as not there.
C19_SweepInvisible ==
  [][Did("_autoLoop")
     => \A k \in Keys :
          /\ getResult(storage', k, now') = getResult(storage, k, now)
          /\ hasResult(storage', k, now') = hasResult(storage, k, now)
          /\ ~In(storage', k) /\ In(storage, k)
             => (getResult(storage, k, now) = Null /\ ~hasResult(storage, k, now))]_vars

\* a timer tick has just deleted the expired entry under "a" and kept the fresh "b"
C19_Witness ==
  /\ last.op = "_autoLoop"
  /\ last.removed = <<[key |-> "a", was |-> "expired"]>>
  /\ In(storage, "b") /\ hasResult(storage, "b", now)

\* C20: an add that throws leaves the mapping as it was; an add that returns has
\* stored its own key and left every other key present with the entry it had, however
\* large the mapping is compared with options.maxSizeKb.
C20_AddTouchesOnlyItsKey ==
  [][Did("add")
     => IF last'.threw # ""
        THEN storage' = storage
        ELSE /\ In(storage', last'.key.s)
             /\ \A j \in Keys \ {last'.key.s} :
                  /\ In(storage', j) <=> In(storage, j)
                  /\ In(storage, j) => Get(storage', j) = Get(storage, j)]_vars

\* add has just stored "b" beside "a" in a cache whose size is above its maxSizeKb
C20_Witness ==
  /\ last.op = "add" /\ last.key = Str("b") /\ last.threw = ""
  /\ In(storage, "a") /\ In(storage, "b")
  /\ options.maxSizeKb.t = "number"
  /\ calcApproxObjSize(storage) > options.maxSizeKb.n

====
